---- MODULE Spec2Model ----
(***************************************************************************)
(* object-tree: rendering of a JavaScript value as a tree of text lines.   *)
(*                                                                         *)
(* src/src/lib/object-tree.ts  defaults, resolveOptions, ObjectTree        *)
(*                             (constructor, render, walk, buildPrefix)    *)
(* src/src/lib/handlers.ts     the handler chain and renderValue           *)
(*                                                                         *)
(* A JavaScript string is a sequence of text atoms.  Strings the program   *)
(* inspects (length, slice, startsWith, includes, sort) are sequences of   *)
(* one-character atoms; literals the program only concatenates into its    *)
(* output ("Array(", "Object{}") are single atoms.  The recursion of walk  *)
(* is an explicit stack of pending calls, one action per call.             *)
(***************************************************************************)
EXTENDS Integers, Sequences, FiniteSets, TLC

VARIABLES
    chalkLevel,   \* chalk.level of the environment (0: no colour support)
    userOpts,     \* the ObjectTreeOptions handed to the constructor
    opts,         \* this.opts, the ResolvedOptions
    heap,         \* objects of the input that are reached through a reference
    root,         \* the argument of render
    pc,           \* "new" | "ready" | "walking" | "done" | "threw"
    stack,        \* pending calls of walk, innermost next call first
    lines,        \* the lines array of render
    calls         \* history: one record per call of walk, in call order

vars == <<chalkLevel, userOpts, opts, heap, root, pc, stack, lines, calls>>

----------------------------------------------------------------------------
(* Bounds of the explored inputs *)

MaxSize == 3        \* entries of one container
MaxNest == 2        \* containers nested below the root
MaxStrLen == 5      \* length of an input string
MaxLimit == 2       \* largest finite maxItems / maxKeys / maxLength tried
MaxDepthOpt == 2    \* largest finite maxDepth tried
MaxWalkDepth == 6   \* deepest call of walk explored (a run that recurses on is cut there)

----------------------------------------------------------------------------
(* JavaScript values *)

Undefined == [t |-> "undefined"]
Null == [t |-> "null"]
Omitted == [t |-> "omitted"]          \* an absent property (not a value)
Bool(b) == [t |-> "boolean", v |-> b]
Num(n) == [t |-> "number", x |-> "fin", v |-> n]
Infinity == [t |-> "number", x |-> "inf", v |-> 0]
NaN == [t |-> "number", x |-> "nan", v |-> 0]
BigInt(n) == [t |-> "bigint", v |-> n]
Sym(desc) == [t |-> "symbol", v |-> desc]
Str(s) == [t |-> "string", v |-> s]
\* a function value; src is the text Function.prototype.toString gives
Fn(name, src) == [t |-> "function", name |-> name, src |-> src]
\* an object; cls tells which built-in brand or prototype it has:
\* "Array" | "Set" | "Map" | "Date" | "RegExp" | "Object" (Object.prototype)
\* | "null" (no prototype) | "Other" (any other prototype)
Obj(cls, ctor, keys, vals, text) ==
    [t |-> "object", cls |-> cls, ctor |-> ctor, keys |-> keys, vals |-> vals,
     text |-> text]
Ref(id) == [t |-> "ref", id |-> id]

Arr(items) == Obj("Array", <<"Array">>, <<>>, items, <<>>)
SetOf(items) == Obj("Set", <<"Set">>, <<>>, items, <<>>)
\* a Map whose keys are strings (String(k) is k itself)
MapOf(keys, vals) == Obj("Map", <<"Map">>, keys, vals, <<>>)
Plain(keys, vals) == Obj("Object", <<"Object">>, keys, vals, <<>>)
NullProto(keys, vals) == Obj("null", <<>>, keys, vals, <<>>)
Instance(ctor, keys, vals) == Obj("Other", ctor, keys, vals, <<>>)
DateOf(iso, locale) == Obj("Date", <<"Date">>, <<>>, <<>>, <<iso, locale>>)
RegExpOf(text) == Obj("RegExp", <<"RegExp">>, <<>>, <<>>, text)

\* the object a value denotes
Deref(v) == IF v.t = "ref" THEN heap[v.id] ELSE v

\* typeof value
TypeOf(v) ==
    LET o == Deref(v) IN
    IF o.t = "null" THEN "object" ELSE o.t

----------------------------------------------------------------------------
(* Text *)

ELLIPSIS == "U+2026"     \* the one character "..." of handlers.ts:32,73

DigitChars == <<"0", "1", "2", "3", "4", "5", "6", "7", "8", "9">>

\* String(n) of a non-negative integer
RECURSIVE NatToString(_)
NatToString(n) ==
    IF n < 10 THEN <<DigitChars[n + 1]>>
    ELSE NatToString(n \div 10) \o <<DigitChars[(n % 10) + 1]>>

\* the characters the inputs use, in ascending UTF-16 code unit order
CodeOrder ==
    <<" ", "+", "0", "1", "2", "3", "4", "5", "6", "7", "8", "9",
      "B", "Z", "a", "b", "c", "d", "e", "f", "m", "o", "r", "x", ELLIPSIS>>

CharCode(c) == CHOOSE i \in 1..Len(CodeOrder) : CodeOrder[i] = c

Take(s, n) == IF n <= 0 THEN <<>> ELSE IF n >= Len(s) THEN s ELSE SubSeq(s, 1, n)

\* value.slice(0, end) of a string, end an integer (negative: from the end)
SliceFromStart(s, end) ==
    IF end < 0 THEN Take(s, Len(s) + end) ELSE Take(s, end)

StartsWith(s, p) == Len(s) >= Len(p) /\ SubSeq(s, 1, Len(p)) = p

Includes(s, p) ==
    \E i \in 1..(Len(s) + 1) :
        i + Len(p) - 1 <= Len(s) /\ SubSeq(s, i, i + Len(p) - 1) = p

\* a < b as the default comparator of Array.prototype.sort sees two strings
RECURSIVE StrLess(_, _)
StrLess(a, b) ==
    IF b = <<>> THEN FALSE
    ELSE IF a = <<>> THEN TRUE
    ELSE IF CharCode(Head(a)) < CharCode(Head(b)) THEN TRUE
    ELSE IF CharCode(Head(a)) > CharCode(Head(b)) THEN FALSE
    ELSE StrLess(Tail(a), Tail(b))

RECURSIVE InsertSorted(_, _)
InsertSorted(k, sorted) ==
    IF sorted = <<>> THEN <<k>>
    ELSE IF StrLess(k, Head(sorted)) THEN <<k>> \o sorted
    ELSE <<Head(sorted)>> \o InsertSorted(k, Tail(sorted))

\* keys.sort()
RECURSIVE SortStrings(_)
SortStrings(keys) ==
    IF keys = <<>> THEN <<>>
    ELSE InsertSorted(Head(keys), SortStrings(Tail(keys)))

\* `${v}` of an option that holds a string or undefined
Interpolate(v) == IF v.t = "undefined" THEN <<"undefined">> ELSE v.v

\* the truthiness of an option value
Truthy(v) ==
    CASE v.t = "boolean" -> v.v
      [] v.t = "number" -> v.x = "inf" \/ (v.x = "fin" /\ v.v # 0)
      [] v.t = "string" -> v.v # <<>>
      [] OTHER -> FALSE

\* Math.min(n, m) for a length n and an option m; undefined converts to NaN
MathMin(n, m) ==
    IF m.t # "number" \/ m.x = "nan" THEN NaN
    ELSE IF m.x = "inf" THEN Num(n)
    ELSE IF m.v < n THEN Num(m.v) ELSE Num(n)

\* i < m and i > m for an integer i and a number m (false against NaN)
IntLess(i, m) == m.x = "inf" \/ (m.x = "fin" /\ i < m.v)
IntGreater(i, m) == m.t = "number" /\ m.x = "fin" /\ i > m.v

NumLessInt(m, n) == m.x = "fin" /\ m.v < n

\* how many times a loop "for (i = 0; i < toShow; i += 1)" runs
LoopCount(toShow) == IF toShow.x = "fin" THEN toShow.v ELSE 0

----------------------------------------------------------------------------
(* Options: object-tree.ts *)

ColorNames ==
    {"string", "number", "boolean", "null", "undefined", "bigint", "symbol",
     "function", "class", "date", "regexp", "array", "object", "set", "map",
     "instance"}

defaults ==
    [chars |-> [tee |-> Str(<<"+-">>), ell |-> Str(<<"L-">>), pipe |-> Str(<<"|">>)],
     connectorColor |-> Str(<<"gray">>),
     indent |-> Str(<<" ", " ">>),
     maxDepth |-> Infinity,
     showRoot |-> Bool(FALSE),
     colors |->
        [string |-> Str(<<"green">>), number |-> Str(<<"cyan">>),
         boolean |-> Str(<<"yellow">>), null |-> Str(<<"red">>),
         undefined |-> Str(<<"gray">>), bigint |-> Str(<<"cyan">>),
         symbol |-> Str(<<"magenta">>), function |-> Str(<<"gray">>),
         class |-> Str(<<"cyan">>), date |-> Str(<<"magenta">>),
         regexp |-> Str(<<"red">>), array |-> Str(<<"yellow">>),
         object |-> Str(<<"cyan">>), set |-> Str(<<"green">>),
         map |-> Str(<<"blue">>), instance |-> Str(<<"cyan">>)],
     string |-> [maxLength |-> Num(80), quotes |-> Str(<<"double">>)],
     array |-> [maxItems |-> Infinity, showLength |-> Bool(TRUE)],
     object |-> [maxKeys |-> Infinity, sortKeys |-> Bool(TRUE)],
     set |-> [maxItems |-> Infinity, showSize |-> Bool(TRUE)],
     map |-> [maxItems |-> Infinity, showSize |-> Bool(TRUE),
              divider |-> Str(<<" ", "->", " ">>)],
     date |-> [format |-> Str(<<"none">>)]]

SectionNames == {"chars", "colors", "string", "array", "object", "set", "map", "date"}
ScalarNames == {"connectorColor", "indent", "maxDepth", "showRoot"}

\* a section object of the user's options: f gives every field of the section,
\* Omitted for a property the object does not have
Section(f) == [t |-> "section", f |-> f]

\* { ...def, ...sec }: every own property of sec overrides, undefined included
Spread(def, sec) ==
    IF sec.t \in {"omitted", "undefined", "null"} THEN def
    ELSE [k \in DOMAIN def |-> IF sec.f[k].t = "omitted" THEN def[k] ELSE sec.f[k]]

\* a ?? b
Nullish(a, b) == IF a.t \in {"omitted", "undefined", "null"} THEN b ELSE a

\* the options object with no property
NoOptions == [k \in SectionNames \cup ScalarNames |-> Omitted]

\* resolveOptions(opts = {}): the default parameter replaces undefined only
resolveOptions(o) ==
    LET u == IF o.t = "undefined" THEN NoOptions ELSE o.f IN
    [chars |-> Spread(defaults.chars, u.chars),
     connectorColor |-> Nullish(u.connectorColor, defaults.connectorColor),
     indent |-> Nullish(u.indent, defaults.indent),
     maxDepth |-> Nullish(u.maxDepth, defaults.maxDepth),
     showRoot |-> Nullish(u.showRoot, defaults.showRoot),
     colors |-> Spread(defaults.colors, u.colors),
     string |-> Spread(defaults.string, u.string),
     array |-> Spread(defaults.array, u.array),
     object |-> Spread(defaults.object, u.object),
     set |-> Spread(defaults.set, u.set),
     map |-> Spread(defaults.map, u.map),
     date |-> Spread(defaults.date, u.date)]

\* connector(char, opts)
connector(char, o) ==
    IF chalkLevel > 0
    THEN <<"<", Interpolate(o.connectorColor)[1], ">">> \o Interpolate(char) \o <<"</>">>
    ELSE Interpolate(char)

----------------------------------------------------------------------------
(* Handlers: handlers.ts *)

\* colorize(text, color): chalk[color](text) wraps the text in the colour's codes
colorize(text, color) ==
    IF chalkLevel > 0
    THEN <<"<", Interpolate(color)[1], ">">> \o text \o <<"</>">>
    ELSE text

\* chalk[undefined] is not a function: colorize throws a TypeError
colorizeThrows(color) == chalkLevel > 0 /\ color.t # "string"

\* what a handler returns: null (ok FALSE) or a RenderResult; threw tells that
\* building the header threw instead
NoMatch == [ok |-> FALSE, threw |-> FALSE, header |-> <<>>, children |-> <<>>]

Node(text, color, children) ==
    [ok |-> TRUE, threw |-> colorizeThrows(color),
     header |-> IF colorizeThrows(color) THEN <<>> ELSE colorize(text, color),
     children |-> children]

\* a child entry { key, value, divider? }
Entry(key, value) == [key |-> key, value |-> value, divider |-> Undefined]

isPlainObject(value) ==
    LET o == Deref(value) IN
    IF o.t = "null" \/ TypeOf(value) # "object" THEN FALSE
    ELSE o.cls = "Object" \/ o.cls = "null"

isClass(value) ==
    LET o == Deref(value) IN
    IF TypeOf(value) # "function" THEN FALSE
    ELSE StartsWith(o.src, <<"class ">>)

truncationEntry(remaining) ==
    [key |-> <<ELLIPSIS>>,
     value |-> Str(<<"+">> \o NatToString(remaining) \o <<" ", "m", "o", "r", "e">>),
     divider |-> Undefined]

handlePrimitive(value, o) ==
    LET v == Deref(value) IN
    CASE v.t = "null" -> Node(<<"null">>, o.colors.null, <<>>)
      [] v.t = "undefined" -> Node(<<"undefined">>, o.colors.undefined, <<>>)
      [] v.t = "boolean" ->
            Node(IF v.v THEN <<"true">> ELSE <<"false">>, o.colors.boolean, <<>>)
      [] v.t = "number" ->
            Node(IF v.x = "nan" THEN <<"NaN">>
                 ELSE IF v.x = "inf" THEN <<"Infinity">>
                 ELSE NatToString(v.v),
                 o.colors.number, <<>>)
      [] v.t = "bigint" -> Node(NatToString(v.v) \o <<"n">>, o.colors.bigint, <<>>)
      [] v.t = "symbol" ->
            Node(<<"Symbol(">> \o v.v \o <<")">>, o.colors.symbol, <<>>)
      [] OTHER -> NoMatch

handleString(value, o) ==
    LET v == Deref(value)
        maxLength == o.string.maxLength
        quotes == o.string.quotes
        truncated ==
            IF IntGreater(Len(v.v), maxLength)
            THEN SliceFromStart(v.v, maxLength.v - 1) \o <<ELLIPSIS>>
            ELSE v.v
        text ==
            IF quotes = Str(<<"single">>) THEN <<"'">> \o truncated \o <<"'">>
            ELSE IF quotes = Str(<<"double">>) THEN <<"\"">> \o truncated \o <<"\"">>
            ELSE truncated
    IN  IF TypeOf(value) # "string" THEN NoMatch
        ELSE Node(text, o.colors.string, <<>>)

\* ItemChildren with the test for the truncation entry off by one (<=)
ItemChildren_OffByOne(entries, toShow) ==
    SubSeq(entries, 1, LoopCount(toShow))
    \o (IF toShow.x = "fin" /\ toShow.v <= Len(entries)
        THEN <<truncationEntry(Len(entries) - toShow.v)>> ELSE <<>>)

\* the children of an array, a Set or a Map whose members give entries, in
\* iteration order: the first toShow of them, then the truncation entry when
\* toShow < size
ItemChildren(entries, toShow) ==
    SubSeq(entries, 1, LoopCount(toShow))
    \o (IF NumLessInt(toShow, Len(entries))
        THEN <<truncationEntry(Len(entries) - toShow.v)>> ELSE <<>>)

handleArray(value, o) ==
    LET v == Deref(value)
        maxItems == o.array.maxItems
        showLength == o.array.showLength
        len == Len(v.vals)
        toShow == MathMin(len, maxItems)
        entries == [i \in 1..Len(v.vals) |-> Entry(NatToString(i - 1), v.vals[i])]
        label == IF Truthy(showLength)
                 THEN <<"Array(">> \o NatToString(len) \o <<")">>
                 ELSE <<"Array">>
    IN  IF ~(v.t = "object" /\ v.cls = "Array") THEN NoMatch
        ELSE Node(label, o.colors.array, ItemChildren(entries, toShow))

handleSet(value, o) ==
    LET v == Deref(value)
        maxItems == o.set.maxItems
        showSize == o.set.showSize
        size == Len(v.vals)
        toShow == MathMin(size, maxItems)
        entries == [i \in 1..Len(v.vals) |-> Entry(NatToString(i - 1), v.vals[i])]
        label == IF Truthy(showSize)
                 THEN <<"Set(">> \o NatToString(size) \o <<")">>
                 ELSE <<"Set">>
    IN  IF ~(v.t = "object" /\ v.cls = "Set") THEN NoMatch
        ELSE Node(label, o.colors.set, ItemChildren(entries, toShow))

handleMap(value, o) ==
    LET v == Deref(value)
        maxItems == o.map.maxItems
        showSize == o.map.showSize
        divider == o.map.divider
        size == Len(v.vals)
        toShow == MathMin(size, maxItems)
        entries == [i \in 1..Len(v.vals) |->
                        [key |-> v.keys[i], value |-> v.vals[i], divider |-> divider]]
        label == IF Truthy(showSize)
                 THEN <<"Map(">> \o NatToString(size) \o <<")">>
                 ELSE <<"Map">>
    IN  IF ~(v.t = "object" /\ v.cls = "Map") THEN NoMatch
        ELSE Node(label, o.colors.map, ItemChildren(entries, toShow))

handleFunction(value, o) ==
    LET v == Deref(value)
        name == IF v.name # <<>> THEN v.name ELSE <<"anonymous">>
    IN  IF TypeOf(value) # "function" \/ isClass(value) THEN NoMatch
        ELSE Node(<<"Function(">> \o name \o <<")">>, o.colors.function, <<>>)

handleClass(value, o) ==
    LET v == Deref(value)
        name == IF v.name # <<>> THEN v.name ELSE <<"anonymous">>
    IN  IF ~isClass(value) THEN NoMatch
        ELSE Node(<<"Class(">> \o name \o <<")">>, o.colors.class, <<>>)

handleDate(value, o) ==
    LET v == Deref(value)
        format == o.date.format
        body == IF format = Str(<<"iso">>) THEN <<"Date(", v.text[1], ")">>
                ELSE IF format = Str(<<"locale">>) THEN <<"Date(", v.text[2], ")">>
                ELSE <<"Date()">>
    IN  IF ~(v.t = "object" /\ v.cls = "Date") THEN NoMatch
        ELSE Node(body, o.colors.date, <<>>)

handleRegExp(value, o) ==
    LET v == Deref(value) IN
    IF ~(v.t = "object" /\ v.cls = "RegExp") THEN NoMatch
    ELSE Node(v.text, o.colors.regexp, <<>>)

\* value[k] of an object whose own enumerable string keys are v.keys
PropertyOf(v, k) == v.vals[CHOOSE i \in 1..Len(v.keys) : v.keys[i] = k]

\* the children of an object: the entries of the first toShow keys, then the
\* truncation entry when toShow < keys.length
KeyChildren(v, keys, toShow) ==
    [i \in 1..LoopCount(toShow) |-> Entry(keys[i], PropertyOf(v, keys[i]))]
    \o (IF NumLessInt(toShow, Len(keys))
        THEN <<truncationEntry(Len(keys) - toShow.v)>> ELSE <<>>)

\* handleObject without the sort
handleObject_NoSort(value, o) ==
    LET v == Deref(value)
        keys == v.keys
        toShow == MathMin(Len(keys), o.object.maxKeys)
    IN  IF ~isPlainObject(value) THEN NoMatch
        ELSE Node(<<"Object{}">>, o.colors.object, KeyChildren(v, keys, toShow))

handleObject(value, o) ==
    LET v == Deref(value)
        maxKeys == o.object.maxKeys
        sortKeys == o.object.sortKeys
        keys == IF Truthy(sortKeys) THEN SortStrings(v.keys) ELSE v.keys
        toShow == MathMin(Len(keys), maxKeys)
    IN  IF ~isPlainObject(value) THEN NoMatch
        ELSE Node(<<"Object{}">>, o.colors.object, KeyChildren(v, keys, toShow))

handleInstance(value, o) ==
    LET v == Deref(value)
        ctorName == IF v.ctor # <<>> THEN v.ctor ELSE <<"Object">>
        ownKeys == v.keys
        toShow == MathMin(Len(ownKeys), o.object.maxKeys)
    IN  IF v.t = "null" \/ TypeOf(value) # "object" THEN NoMatch
        ELSE IF isPlainObject(value) THEN NoMatch
        ELSE IF v.cls \in {"Date", "RegExp", "Set", "Map", "Array"} THEN NoMatch
        ELSE Node(ctorName \o <<"{}">>, o.colors.instance,
                  KeyChildren(v, ownKeys, toShow))

\* the handler chain, in order
handlers ==
    <<"handlePrimitive", "handleString", "handleDate", "handleRegExp",
      "handleArray", "handleSet", "handleMap", "handleFunction", "handleClass",
      "handleInstance", "handleObject">>

CallHandler(h, value, o) ==
    CASE h = "handlePrimitive" -> handlePrimitive(value, o)
      [] h = "handleString" -> handleString(value, o)
      [] h = "handleDate" -> handleDate(value, o)
      [] h = "handleRegExp" -> handleRegExp(value, o)
      [] h = "handleArray" -> handleArray(value, o)
      [] h = "handleSet" -> handleSet(value, o)
      [] h = "handleMap" -> handleMap(value, o)
      [] h = "handleFunction" -> handleFunction(value, o)
      [] h = "handleClass" -> handleClass(value, o)
      [] h = "handleInstance" -> handleInstance(value, o)
      [] h = "handleObject" -> handleObject(value, o)

\* the fallback { header: "Unknown" }
Unknown == [ok |-> TRUE, threw |-> FALSE, header |-> <<"Unknown">>, children |-> <<>>]

\* the index of the first handler that returns a result, 0 if none does
FirstMatch(value, o) ==
    LET hits == {i \in 1..Len(handlers) : CallHandler(handlers[i], value, o).ok}
    IN  IF hits = {} THEN 0 ELSE CHOOSE i \in hits : \A j \in hits : i <= j

renderValue(value, o) ==
    LET i == FirstMatch(value, o)
    IN  IF i = 0 THEN Unknown ELSE CallHandler(handlers[i], value, o)

----------------------------------------------------------------------------
(* ObjectTree: object-tree.ts *)

\* the continuation columns of buildPrefix, one per entry of levels
RECURSIVE LevelColumns(_, _)
LevelColumns(levels, o) ==
    IF levels = <<>> THEN <<>>
    ELSE (IF Head(levels)
          THEN connector(o.chars.pipe, o) \o Interpolate(o.indent)
          ELSE <<" ">> \o Interpolate(o.indent))
         \o LevelColumns(Tail(levels), o)

\* buildPrefix(levels, isLast); isLast is <<>> when undefined, else <<b>>
buildPrefix(levels, isLast, o) ==
    LevelColumns(levels, o)
    \o (IF isLast # <<>>
        THEN (IF isLast[1] THEN connector(o.chars.ell, o) \o <<" ">>
              ELSE connector(o.chars.tee, o) \o <<" ">>)
        ELSE <<>>)

\* one pending call walk(value, lines, levels, depth, keyLabel, isLast, divider);
\* keyLabel and isLast are <<>> when undefined; path is the position of the
\* value below the root (the child indices taken), kept for the history only
Call(value, levels, depth, keyLabel, isLast, divider, path) ==
    [value |-> value, levels |-> levels, depth |-> depth, keyLabel |-> keyLabel,
     isLast |-> isLast, divider |-> divider, path |-> path]

\* a line: `${prefix}${label}${text}`
Line(prefix, label, text) == [prefix |-> prefix, label |-> label, text |-> text]
LineString(l) == l.prefix \o l.label \o l.text

\* the depth test with >= for >
BeyondDepth_AtLimit(c, o) == o.maxDepth.x = "fin" /\ c.depth >= o.maxDepth.v

\* the depth test one level late
BeyondDepth_OneLevelLate(c, o) == o.maxDepth.x = "fin" /\ c.depth > o.maxDepth.v + 1

\* walk's first test
BeyondDepth(c, o) == IntGreater(c.depth, o.maxDepth)

\* walk's test for a truncation marker
IsTruncationValue(value) ==
    LET v == Deref(value) IN
    /\ TypeOf(value) = "string"
    /\ StartsWith(v.v, <<"+">>)
    /\ Includes(v.v, <<"m", "o", "r", "e">>)

\* the line of the truncation branch
TruncationLine(c, o) ==
    Line(buildPrefix(c.levels, c.isLast, o),
         IF c.keyLabel # <<>> THEN c.keyLabel[1] \o c.divider ELSE <<>>,
         colorize(Deref(c.value).v, Str(<<"gray">>)))

\* whether the value branch pushes a line
EmitsLine(c, o) == c.keyLabel # <<>> \/ Truthy(o.showRoot) \/ c.depth > 0

\* the line of the value branch
ValueLine(c, result, o) ==
    Line(buildPrefix(c.levels, c.isLast, o),
         IF c.keyLabel # <<>> THEN c.keyLabel[1] \o c.divider ELSE <<>>,
         result.header)

\* childLevels with the test of isLast inverted
ChildLevels_Inverted(c) ==
    IF c.depth = 0 THEN c.levels ELSE c.levels \o <<c.isLast = <<TRUE>> >>

\* the levels handed to the children
ChildLevels(c) ==
    IF c.depth = 0 THEN c.levels ELSE c.levels \o <<c.isLast # <<TRUE>> >>

\* the children loop with the root's children kept at the root's depth
ChildCalls_RootChildrenAtDepthZero(c, result) ==
    LET lastIndex == Len(result.children) IN
    [i \in 1..Len(result.children) |->
        Call(result.children[i].value, ChildLevels(c),
             IF c.keyLabel = <<>> THEN c.depth ELSE c.depth + 1,
             <<result.children[i].key>>, <<i = lastIndex>>,
             Interpolate(Nullish(result.children[i].divider, Str(<<":", " ">>))),
             c.path \o <<i>>)]

\* the recursive calls of the children loop, in order
ChildCalls(c, result) ==
    LET lastIndex == Len(result.children) IN
    [i \in 1..Len(result.children) |->
        Call(result.children[i].value, ChildLevels(c), c.depth + 1,
             <<result.children[i].key>>, <<i = lastIndex>>,
             Interpolate(Nullish(result.children[i].divider, Str(<<":", " ">>))),
             c.path \o <<i>>)]

\* the history record of one call
CallRecord(c, branch, result, line) ==
    [path |-> c.path, depth |-> c.depth, value |-> c.value, keyLabel |-> c.keyLabel,
     isLast |-> c.isLast, levels |-> c.levels, branch |-> branch,
     result |-> result, line |-> line]

\* new ObjectTree(options)
Construct ==
    /\ pc = "new"
    /\ opts' = resolveOptions(userOpts)
    /\ pc' = "ready"
    /\ UNCHANGED <<chalkLevel, userOpts, heap, root, stack, lines, calls>>

\* render(root) up to its call of walk
Render ==
    /\ pc = "ready"
    /\ lines' = <<>>
    /\ stack' = <<Call(root, <<>>, 0, <<>>, <<>>, <<":", " ">>, <<>>)>>
    /\ pc' = "walking"
    /\ UNCHANGED <<chalkLevel, userOpts, opts, heap, root, calls>>

\* walk: depth > maxDepth, return
WalkBeyondDepth ==
    /\ pc = "walking" /\ stack # <<>>
    /\ Head(stack).depth <= MaxWalkDepth
    /\ LET c == Head(stack) IN
        /\ BeyondDepth(c, opts)
        /\ stack' = Tail(stack)
        /\ calls' = Append(calls, CallRecord(c, "beyond", NoMatch, 0))
    /\ UNCHANGED <<chalkLevel, userOpts, opts, heap, root, pc, lines>>

\* walk: the truncation branch
WalkTruncation ==
    /\ pc = "walking" /\ stack # <<>>
    /\ Head(stack).depth <= MaxWalkDepth
    /\ LET c == Head(stack) IN
        /\ ~BeyondDepth(c, opts)
        /\ IsTruncationValue(c.value)
        /\ lines' = Append(lines, TruncationLine(c, opts))
        /\ stack' = Tail(stack)
        /\ calls' = Append(calls, CallRecord(c, "truncation", NoMatch, Len(lines) + 1))
    /\ UNCHANGED <<chalkLevel, userOpts, opts, heap, root, pc>>

\* walk: renderValue, the line, and the calls for the children
WalkValue ==
    /\ pc = "walking" /\ stack # <<>>
    /\ Head(stack).depth <= MaxWalkDepth
    /\ LET c == Head(stack) IN
        /\ ~BeyondDepth(c, opts)
        /\ ~IsTruncationValue(c.value)
        /\ \E result \in {renderValue(c.value, opts)} :
            /\ ~result.threw
            /\ lines' = IF EmitsLine(c, opts)
                        THEN Append(lines, ValueLine(c, result, opts))
                        ELSE lines
            /\ stack' = ChildCalls(c, result) \o Tail(stack)
            /\ calls' = Append(calls, CallRecord(c, "value", result,
                                           IF EmitsLine(c, opts) THEN Len(lines) + 1
                                           ELSE 0))
    /\ UNCHANGED <<chalkLevel, userOpts, opts, heap, root, pc>>

\* walk: renderValue throws (colorize with a colour that is no chalk colour)
WalkThrows ==
    /\ pc = "walking" /\ stack # <<>>
    /\ Head(stack).depth <= MaxWalkDepth
    /\ LET c == Head(stack) IN
        /\ ~BeyondDepth(c, opts)
        /\ ~IsTruncationValue(c.value)
        /\ \E result \in {renderValue(c.value, opts)} :
            /\ result.threw
            /\ calls' = Append(calls, CallRecord(c, "threw", NoMatch, 0))
    /\ pc' = "threw"
    /\ UNCHANGED <<chalkLevel, userOpts, opts, heap, root, stack, lines>>

\* render returns lines
RenderReturns ==
    /\ pc = "walking" /\ stack = <<>>
    /\ pc' = "done"
    /\ UNCHANGED <<chalkLevel, userOpts, opts, heap, root, stack, lines, calls>>

----------------------------------------------------------------------------
(* Inputs *)

Letters == <<"a", "b", "c", "d", "e", "f">>

\* "abcdefabc..." of length n
AlphaString(n) == [i \in 1..n |-> Letters[((i - 1) % Len(Letters)) + 1]]

\* the strings tried: plain text, "+more..." (shaped like a truncation value),
\* "+abc..." and "more+..." (half of the shape), each cut to every length
StringPool ==
    UNION {{AlphaString(n),
            Take(<<"+", "m", "o", "r", "e">> \o AlphaString(n), n),
            Take(<<"+">> \o AlphaString(n), n),
            Take(<<"m", "o", "r", "e", "+">> \o AlphaString(n), n)} : n \in 0..MaxStrLen}

\* the keys tried; "Z" sorts before "a", "a" before "ab"
KeyPool == {<<"b">>, <<"a">>, <<"a", "b">>, <<"Z">>}

\* n distinct keys in descending order: ... "c", "b", "a"
AlphaKeys(n) == [i \in 1..n |-> <<Letters[n + 1 - i]>>]

\* the sequences without repetition of at most n members of S
RECURSIVE Arrangements(_, _)
Arrangements(S, n) ==
    IF n = 0 THEN {<<>>}
    ELSE LET shorter == Arrangements(S, n - 1) IN
         shorter \cup {Append(q, x) : q \in {r \in shorter : Len(r) = n - 1},
                                      x \in S}

KeyOrders == {q \in Arrangements(KeyPool, MaxSize) :
                \A i, j \in 1..Len(q) : i # j => q[i] # q[j]}

NumberItems(n) == [i \in 1..n |-> Num(i)]

\* the user's options object with the properties of over
Options(over) ==
    [t |-> "options",
     f |-> [k \in DOMAIN NoOptions |-> IF k \in DOMAIN over THEN over[k] ELSE Omitted]]

\* a section object with the properties of over
SectionOf(name, over) ==
    Section([k \in DOMAIN defaults[name] |->
                IF k \in DOMAIN over THEN over[k] ELSE Omitted])

LimitChoices == {Omitted} \cup {Num(n) : n \in 0..MaxLimit}
DepthChoices == {Omitted} \cup {Num(n) : n \in 0..MaxDepthOpt}

\* the state before the constructor runs
Start(level, o, h, r) ==
    /\ chalkLevel = level
    /\ userOpts = o
    /\ heap = h
    /\ root = r
    /\ opts = Undefined
    /\ pc = "new"
    /\ stack = <<>>
    /\ lines = <<>>
    /\ calls = <<>>

\* strings, at the root and inside a container
InitStrings ==
    \E s \in StringPool, wrap \in {"root", "array", "map"},
       maxLength \in LimitChoices,
       quotes \in {Omitted, Str(<<"none">>), Str(<<"single">>), Str(<<"double">>)},
       showRoot \in {Omitted, Bool(TRUE)} :
        Start(0,
              Options("string" :> SectionOf("string", "maxLength" :> maxLength
                                                     @@ "quotes" :> quotes)
                      @@ "showRoot" :> showRoot),
              <<>>,
              CASE wrap = "root" -> Str(s)
                [] wrap = "array" -> Arr(<<Str(s)>>)
                [] wrap = "map" -> MapOf(<<<<"a">>>>, <<Str(s)>>))

\* one container of every kind, size, key order and limit
ContainerKinds == {"array", "set", "map", "object", "nullproto", "instance"}

ContainerOf(kind, keys) ==
    CASE kind = "array" -> Arr(NumberItems(Len(keys)))
      [] kind = "set" -> SetOf(NumberItems(Len(keys)))
      [] kind = "map" -> MapOf(keys, NumberItems(Len(keys)))
      [] kind = "object" -> Plain(keys, NumberItems(Len(keys)))
      [] kind = "nullproto" -> NullProto(keys, NumberItems(Len(keys)))
      [] kind = "instance" -> Instance(<<"Point">>, keys, NumberItems(Len(keys)))

\* the section that limits a kind of container
LimitSection(kind) ==
    CASE kind = "array" -> "array"
      [] kind = "set" -> "set"
      [] kind = "map" -> "map"
      [] OTHER -> "object"

LimitField(section) == IF section = "object" THEN "maxKeys" ELSE "maxItems"

\* options that give section own the limit mine and the other sections other
LimitOptions(own, mine, other, sortKeys) ==
    [k \in {"array", "set", "map", "object"} |->
        SectionOf(k, (LimitField(k) :> (IF k = own THEN mine ELSE other))
                     @@ (IF k = "object" THEN "sortKeys" :> sortKeys
                         ELSE "none" :> Omitted))]

InitContainers ==
    \E kind \in ContainerKinds, keys \in KeyOrders,
       mine \in LimitChoices, other \in {Omitted, Num(0)},
       sortKeys \in {Omitted, Bool(TRUE), Bool(FALSE)} :
        /\ kind \in {"array", "set"} => keys = AlphaKeys(Len(keys))
        /\ kind \in {"array", "set", "map"} => sortKeys = Omitted
        /\ Start(0, Options(LimitOptions(LimitSection(kind), mine, other, sortKeys)),
                 <<>>, ContainerOf(kind, keys))

\* nested containers: every container has n entries; below the root the next
\* container sits first or last among them, as pattern says, and the other
\* entries are numbers (fill "leaf") or one-element arrays (fill "box")
KindPatterns == {<<"array">>, <<"object">>, <<"map", "set", "instance">>}

SpinePatterns == UNION {[1..d -> {"first", "last"}] : d \in 0..MaxNest}

RECURSIVE SpineTree(_, _, _, _, _)
SpineTree(n, pattern, kinds, fill, level) ==
    LET spine == IF pattern = <<>> THEN 0
                 ELSE IF Head(pattern) = "first" THEN 1 ELSE n
        items == [i \in 1..n |->
                    IF i = spine THEN SpineTree(n, Tail(pattern), kinds, fill, level + 1)
                    ELSE IF fill = "box" THEN Arr(<<Num(i)>>)
                    ELSE Num(i)]
        kind == kinds[(level % Len(kinds)) + 1]
    IN  CASE kind = "array" -> Arr(items)
          [] kind = "set" -> SetOf(items)
          [] kind = "map" -> MapOf(AlphaKeys(n), items)
          [] kind = "object" -> Plain(AlphaKeys(n), items)
          [] kind = "instance" -> Instance(<<"Point">>, AlphaKeys(n), items)

InitTrees ==
    \E n \in 1..MaxSize, pattern \in SpinePatterns, kinds \in KindPatterns,
       fill \in {"leaf", "box"}, maxDepth \in DepthChoices,
       showRoot \in {Bool(FALSE), Bool(TRUE)},
       limit \in {Omitted, Num(MaxLimit)} :
        /\ fill = "box" => kinds = <<"array">>
        /\ Start(0,
                 Options(LimitOptions("array", limit, limit, Omitted)
                         @@ "maxDepth" :> maxDepth @@ "showRoot" :> showRoot),
                 <<>>, SpineTree(n, pattern, kinds, fill, 0))

\* values without children, of every category
LeafValues ==
    {Null, Undefined, Bool(TRUE), Bool(FALSE), Num(0), Num(12), NaN, Infinity,
     BigInt(7), Sym(<<"id">>),
     Fn(<<"go">>, <<"function ", "go", "() {}">>), Fn(<<>>, <<"() => 1">>),
     Fn(<<"Person">>, <<"class ", "Person", " {}">>), Fn(<<>>, <<"class ", "{}">>),
     DateOf("1993-05-15T00:00:00.000Z", "5/15/1993, 12:00:00 AM"),
     RegExpOf(<<"/", "a", "+", "/">>),
     Arr(<<>>), SetOf(<<>>), MapOf(<<>>, <<>>), Plain(<<>>, <<>>),
     NullProto(<<>>, <<>>), Instance(<<>>, <<>>, <<>>)}

InitLeaves ==
    \E v \in LeafValues, wrap \in {"root", "array"},
       showRoot \in {Omitted, Bool(FALSE), Bool(TRUE)},
       format \in {Omitted, Str(<<"none">>), Str(<<"iso">>), Str(<<"locale">>)},
       level \in {0, 1} :
        /\ format # Omitted => v.t = "object" /\ v.cls = "Date"
        /\ Start(level,
                 Options("showRoot" :> showRoot
                         @@ "date" :> SectionOf("date", "format" :> format)),
                 <<>>, IF wrap = "root" THEN v ELSE Arr(<<v>>))

\* objects that contain themselves, under a finite maxDepth and under the
\* default (unbounded) one; with the array cut to one item; with colours on
\* and the colour of numbers undefined
CyclicHeaps ==
    {<< Plain(<<<<"b">>, <<"a">>>>, <<Num(1), Ref(1)>>) >>,
     << Arr(<<Ref(1), Num(1), Ref(1)>>) >>,
     << Plain(<<<<"a">>>>, <<Ref(2)>>), MapOf(<<<<"b">>, <<"a">>>>, <<Ref(1), Ref(2)>>) >>}

InitCyclic ==
    \E h \in CyclicHeaps, maxDepth \in DepthChoices,
       showRoot \in {Bool(FALSE), Bool(TRUE)}, maxItems \in {Omitted, Num(1)},
       level \in {0, 1} :
        Start(level,
              Options("maxDepth" :> maxDepth @@ "showRoot" :> showRoot
                      @@ "array" :> SectionOf("array", "maxItems" :> maxItems)
                      @@ "colors" :> (IF level = 1
                                      THEN SectionOf("colors", "number" :> Undefined)
                                      ELSE Omitted)),
              h, Ref(1))

\* partial options: every field of one section, or one scalar, omitted,
\* undefined or given
FieldChoices(given) == {Omitted, Undefined, given}

\* a value other than the default, for every field
Given ==
    [chars |-> [tee |-> Str(<<"T">>), ell |-> Str(<<"E">>), pipe |-> Str(<<"!">>)],
     connectorColor |-> Str(<<"white">>),
     indent |-> Str(<<" ">>),
     maxDepth |-> Num(1),
     showRoot |-> Bool(TRUE),
     colors |-> [k \in ColorNames |-> Str(<<"white">>)],
     string |-> [maxLength |-> Num(2), quotes |-> Str(<<"single">>)],
     array |-> [maxItems |-> Num(1), showLength |-> Bool(FALSE)],
     object |-> [maxKeys |-> Num(1), sortKeys |-> Bool(FALSE)],
     set |-> [maxItems |-> Num(1), showSize |-> Bool(FALSE)],
     map |-> [maxItems |-> Num(1), showSize |-> Bool(FALSE), divider |-> Str(<<"=">>)],
     date |-> [format |-> Str(<<"iso">>)]]

\* the section objects tried for one section: every combination of omitted,
\* undefined and given over its fields (for colors: one field against the rest)
SectionChoices(name) ==
    IF name = "colors"
    THEN {Section([k \in ColorNames |-> IF k = one THEN a ELSE b]) :
            one \in ColorNames,
            a \in FieldChoices(Given.colors.string),
            b \in FieldChoices(Given.colors.string)}
    ELSE {Section(f) :
            f \in [DOMAIN defaults[name] -> {"omitted", "undefined", "given"}]}

PartialSection(name, sec) ==
    IF name = "colors" THEN sec
    ELSE Section([k \in DOMAIN sec.f |->
                    CASE sec.f[k] = "omitted" -> Omitted
                      [] sec.f[k] = "undefined" -> Undefined
                      [] sec.f[k] = "given" -> Given[name][k]])

OptionRoot ==
    Plain(<<<<"b">>, <<"a">>>>,
          <<Str(AlphaString(3)), Arr(<<Num(1), SetOf(<<Num(2), Num(3)>>)>>)>>)

InitOptions ==
    \E level \in {0, 1} :
        \/ Start(level, Undefined, <<>>, OptionRoot)
        \/ \E name \in SectionNames :
            \/ \E sec \in SectionChoices(name) :
                Start(level, Options(name :> PartialSection(name, sec)), <<>>, OptionRoot)
            \/ Start(level, Options(name :> Undefined), <<>>, OptionRoot)
        \/ \E name \in ScalarNames :
            \E v \in FieldChoices(Given[name]) :
                Start(level, Options(name :> v), <<>>, OptionRoot)

Init ==
    \/ InitStrings
    \/ InitContainers
    \/ InitTrees
    \/ InitLeaves
    \/ InitCyclic
    \/ InitOptions

Next ==
    \/ Construct
    \/ Render
    \/ WalkBeyondDepth
    \/ WalkTruncation
    \/ WalkValue
    \/ WalkThrows
    \/ RenderReturns



Spec == Init /\ [][Next]_vars

\* render as one synchronous call (a step that can be taken is taken), of the
\* objects that contain themselves and of the single values
FairInit == InitCyclic \/ InitLeaves
FairSpec == FairInit /\ [][Next]_vars /\ WF_vars(Next)

----------------------------------------------------------------------------
(* The rendered tree, read off the input with renderValue alone *)

\* the child entries of a value
Kids(v) == renderValue(v, opts).children

\* the value at a position below v
RECURSIVE ValueAt(_, _)
ValueAt(v, p) ==
    IF p = <<>> THEN v ELSE ValueAt(Kids(v)[Head(p)].value, Tail(p))

\* the child entry at a position p # <<>> below the root
EntryAt(p) == Kids(ValueAt(root, SubSeq(p, 1, Len(p) - 1)))[p[Len(p)]]

\* the positions of the nodes at most d levels below v (d = -1: all of them)
RECURSIVE PathsBelow(_, _)
PathsBelow(v, d) ==
    IF d = 0 THEN {}
    ELSE UNION {{<<i>>} \cup {<<i>> \o q : q \in PathsBelow(Kids(v)[i].value,
                                                          IF d < 0 THEN d ELSE d - 1)}
                : i \in 1..Len(Kids(v))}

\* maxDepth as a count of levels, -1 when unbounded
DepthLimit == IF opts.maxDepth.x = "inf" THEN -1 ELSE opts.maxDepth.v
WithinDepth(level) == DepthLimit < 0 \/ level <= DepthLimit

\* the positions render gave a line, and the line of a position
EmittedPaths == {calls[i].path : i \in {j \in 1..Len(calls) : calls[j].line # 0}}
CallOf(p) == calls[CHOOSE i \in 1..Len(calls) : calls[i].path = p]
LineOf(p) == lines[CallOf(p).line]

LastCall == calls[Len(calls)]

IsContainer(value) ==
    LET v == Deref(value) IN
    v.t = "object" /\ v.cls \in {"Array", "Set", "Map", "Object", "null", "Other"}

\* the configured limit of a container
LimitFor(value) ==
    LET v == Deref(value) IN
    CASE v.cls = "Array" -> opts.array.maxItems
      [] v.cls = "Set" -> opts.set.maxItems
      [] v.cls = "Map" -> opts.map.maxItems
      [] OTHER -> opts.object.maxKeys

IsLimit(m) == m.t = "number" /\ m.x # "nan"

\* min(S, M)
ShownOf(S, m) == IF m.x = "inf" \/ m.v >= S THEN S ELSE m.v

TruncationEntryOf(n) ==
    [key |-> <<ELLIPSIS>>,
     value |-> Str(<<"+">> \o NatToString(n) \o <<" ", "m", "o", "r", "e">>),
     divider |-> Undefined]

----------------------------------------------------------------------------
(* C1 *)

----------------------------------------------------------------------------
(* C2 *)

\* the text render gives a child entry, whatever the depth limit
EntryLabel(e) == e.key \o Interpolate(Nullish(e.divider, Str(<<":", " ">>)))
EntryText(e) ==
    IF IsTruncationValue(e.value) THEN colorize(Deref(e.value).v, Str(<<"gray">>))
    ELSE renderValue(e.value, opts).header

\* C2: with the root at level 0 and every child entry one level below its
\* container, render emits no line for a node at a level > maxDepth and one
\* line for every non-root node at a level <= maxDepth, and that line is the
\* node's own label and header, not changed by what is dropped below it.
C2_DepthLimit ==
    pc = "done" =>
        /\ \A i \in 1..Len(calls) :
            calls[i].line # 0 => WithinDepth(Len(calls[i].path))
        /\ \A p \in PathsBelow(root, DepthLimit) :
            /\ p \in EmittedPaths
            /\ LineOf(p).label = EntryLabel(EntryAt(p))
            /\ LineOf(p).text = EntryText(EntryAt(p))

\* nodes were dropped below a container that has its line at level maxDepth
C2_Witness ==
    /\ pc = "done"
    /\ DepthLimit >= 1
    /\ \E i, j \in 1..Len(calls) :
        /\ calls[i].branch = "beyond"
        /\ calls[j].line # 0
        /\ Len(calls[j].path) = DepthLimit
        /\ calls[i].path = calls[j].path \o <<1>>

----------------------------------------------------------------------------
(* C3 *)

RootLineEmitted == \E i \in 1..Len(calls) : calls[i].path = <<>> /\ calls[i].line # 0

\* C3: for every root value render emits a line for the root iff showRoot is
\* true; a childless root gives no line without showRoot and one line with it.
C3_RootLineIffShowRoot ==
    pc = "done" =>
        /\ RootLineEmitted <=> Truthy(opts.showRoot)
        /\ Kids(root) = <<>> => Len(lines) = (IF Truthy(opts.showRoot) THEN 1 ELSE 0)

----------------------------------------------------------------------------
(* C4 *)

\* the positions to look at: all of them, or those down to two levels below
\* a finite depth limit
PathsToCheck == PathsBelow(root, IF DepthLimit < 0 THEN -1 ELSE DepthLimit + 2)

\* the prefix of a child of the root: its own connector and one space
RootChildPrefix(p) ==
    IF p[1] = Len(Kids(root)) THEN connector(opts.chars.ell, opts) \o <<" ">>
    ELSE connector(opts.chars.tee, opts) \o <<" ">>

\* C4 as stated: without showRoot the root's children count as depth 0, so a
\* node k levels below them is emitted iff k <= maxDepth, and the prefix of
\* the root's children has no level for the root.
C4_ChildrenAtDepthZero ==
    (pc = "done" /\ ~Truthy(opts.showRoot)) =>
        \A p \in PathsToCheck :
            /\ p \in EmittedPaths <=> WithinDepth(Len(p) - 1)
            /\ (Len(p) = 1 /\ p \in EmittedPaths) => LineOf(p).prefix = RootChildPrefix(p)

\* C4 amended: without showRoot the root is still walked at depth 0 and its
\* children at depth 1, so a node k levels below the root's children is
\* emitted iff k + 1 <= maxDepth (none of them with maxDepth = 0); the prefix
\* of the root's children has no level for the root.
C4_ChildrenAtDepthOne ==
    (pc = "done" /\ ~Truthy(opts.showRoot)) =>
        /\ \A i \in 1..Len(calls) : calls[i].depth = Len(calls[i].path)
        /\ \A p \in PathsToCheck :
            /\ p \in EmittedPaths <=> WithinDepth(Len(p))
            /\ (Len(p) = 1 /\ p \in EmittedPaths) => LineOf(p).prefix = RootChildPrefix(p)

\* without showRoot and with maxDepth 1, the root's children have their lines
\* and their own children have none
C4_Witness ==
    /\ pc = "done"
    /\ ~Truthy(opts.showRoot)
    /\ DepthLimit = 1
    /\ <<2>> \in EmittedPaths
    /\ \E i \in 1..Len(calls) : calls[i].path = <<2, 1>> /\ calls[i].branch = "beyond"

----------------------------------------------------------------------------
(* C5 *)

\* C5: a child is rendered as a truncation-marker line exactly when it is the
\* entry a handler appended (key "..."); every other value goes through the
\* handler chain and gets its normal header.
C5_MarkerIffSynthetic ==
    calls # <<>> =>
        LET c == LastCall IN
        c.branch \in {"truncation", "value"} =>
            /\ c.branch = "truncation" <=> c.keyLabel = << <<ELLIPSIS>> >>
            /\ c.keyLabel # << <<ELLIPSIS>> >> =>
                /\ c.result = renderValue(c.value, opts)
                /\ c.line # 0 => lines[c.line].text = c.result.header

----------------------------------------------------------------------------
(* C6 *)

\* C6: the number of lines render returns is (1 if showRoot else 0) plus the
\* number of child entries, truncation entries included, that lie within the
\* depth limit.
C6_LineCount ==
    pc = "done" =>
        Len(lines) = (IF Truthy(opts.showRoot) THEN 1 ELSE 0)
                     + Cardinality(PathsBelow(root, DepthLimit))

----------------------------------------------------------------------------
(* C7 *)

\* the header without the colour codes of colorize
Uncolored(text) == IF chalkLevel > 0 THEN SubSeq(text, 4, Len(text) - 1) ELSE text

QuoteChar(q) ==
    CASE q = Str(<<"single">>) -> <<"'">>
      [] q = Str(<<"double">>) -> <<"\"">>
      [] OTHER -> <<>>

\* C7: for a string of length L and a non-negative integer maxLength, the body
\* is the first maxLength - 1 characters and one ellipsis (length maxLength)
\* if L > maxLength, else the string itself; the body is wrapped in the
\* quotes of the quotes option.
C7_StringBody ==
    calls # <<>> =>
        LET c == LastCall
            s == Deref(c.value).v
            m == opts.string.maxLength
            q == opts.string.quotes
            body == IF Len(s) > m.v THEN Take(s, m.v - 1) \o <<ELLIPSIS>> ELSE s
        IN  (/\ c.branch = "value" /\ TypeOf(c.value) = "string"
             /\ m.t = "number" /\ m.x = "fin"
             /\ q \in {Str(<<"none">>), Str(<<"single">>), Str(<<"double">>)}) =>
                /\ Uncolored(c.result.header) = QuoteChar(q) \o body \o QuoteChar(q)
                /\ Len(s) > m.v => Len(body) = m.v

----------------------------------------------------------------------------
(* C8 *)

IsKeyed(value) ==
    LET v == Deref(value) IN v.t = "object" /\ v.cls \in {"Object", "null", "Other"}

\* the keys of the real child entries of the last call
ShownKeys(c) ==
    LET shown == ShownOf(Len(Deref(c.value).keys), opts.object.maxKeys) IN
    [j \in 1..shown |-> c.result.children[j].key]

Ascending(keys) == \A j \in 1..(Len(keys) - 1) : StrLess(keys[j], keys[j + 1])

\* keys are the Len(keys) smallest of all
Smallest(keys, all) ==
    \A k \in {all[i] : i \in 1..Len(all)} :
        (\A j \in 1..Len(keys) : keys[j] # k) =>
            \A j \in 1..Len(keys) : StrLess(keys[j], k)

SortedShown(c) ==
    /\ Ascending(ShownKeys(c))
    /\ Smallest(ShownKeys(c), Deref(c.value).keys)

EnumerationShown(c) ==
    ShownKeys(c) = Take(Deref(c.value).keys, Len(ShownKeys(c)))

C8_Applies(c) ==
    /\ c.branch = "value" /\ IsKeyed(c.value)
    /\ IsLimit(opts.object.maxKeys)
    /\ opts.object.sortKeys.t = "boolean"

\* C8 as stated: with sortKeys the keys of every rendered object, plain object
\* or class instance, are the first min(S, maxKeys) keys in ascending order;
\* without it they are in enumeration order.
C8_SortedObjectsAndInstances ==
    calls # <<>> =>
        LET c == LastCall IN
        C8_Applies(c) =>
            IF opts.object.sortKeys.v THEN SortedShown(c) ELSE EnumerationShown(c)

\* C8 amended: with sortKeys the keys of every rendered plain object are the
\* first min(S, maxKeys) keys in ascending order; the keys of a class instance
\* are in enumeration order whatever sortKeys is, and so are the keys of a
\* plain object without sortKeys.
C8_SortedPlainObjects ==
    calls # <<>> =>
        LET c == LastCall IN
        C8_Applies(c) =>
            IF opts.object.sortKeys.v /\ Deref(c.value).cls # "Other"
            THEN SortedShown(c) ELSE EnumerationShown(c)

\* a plain object whose keys were not in order was rendered sorted and cut
C8_Witness ==
    /\ calls # <<>>
    /\ C8_Applies(LastCall)
    /\ opts.object.sortKeys.v
    /\ Deref(LastCall.value).cls = "Object"
    /\ Deref(LastCall.value).keys = << <<"b">>, <<"a", "b">>, <<"Z">> >>
    /\ ShownKeys(LastCall) = << <<"Z">>, <<"a", "b">> >>

----------------------------------------------------------------------------
(* C9 *)

\* the value the user supplied for a field, Omitted if there is none
SuppliedField(section, k) ==
    IF userOpts.t = "undefined" THEN Omitted
    ELSE IF userOpts.f[section].t # "section" THEN Omitted
    ELSE userOpts.f[section].f[k]

SuppliedScalar(k) == IF userOpts.t = "undefined" THEN Omitted ELSE userOpts.f[k]

FilledWith(user, resolved, default) ==
    /\ resolved # Undefined
    /\ resolved = (IF user.t \in {"omitted", "undefined"} THEN default ELSE user)

\* C9: for every partial configuration resolveOptions returns a configuration
\* in which every field of every section holds the user's value where one was
\* supplied and the default otherwise; no resolved field is undefined.
C9_FullyPopulated ==
    pc # "new" =>
        /\ \A k \in ScalarNames : FilledWith(SuppliedScalar(k), opts[k], defaults[k])
        /\ \A section \in SectionNames :
            \A k \in DOMAIN defaults[section] :
                FilledWith(SuppliedField(section, k), opts[section][k],
                           defaults[section][k])

----------------------------------------------------------------------------
(* C10 *)

\* whether the node at p is the last child entry of its container
IsLastChild(p) == p[Len(p)] = Len(Kids(ValueAt(root, SubSeq(p, 1, Len(p) - 1))))

\* the columns of the non-root proper ancestors of p, outermost first
RECURSIVE AncestorColumns(_, _)
AncestorColumns(p, j) ==
    IF j >= Len(p) THEN <<>>
    ELSE (IF IsLastChild(SubSeq(p, 1, j))
          THEN <<" ">> \o Interpolate(opts.indent)
          ELSE connector(opts.chars.pipe, opts) \o Interpolate(opts.indent))
         \o AncestorColumns(p, j + 1)

ExpectedPrefix(p) ==
    AncestorColumns(p, 1)
    \o (IF IsLastChild(p) THEN connector(opts.chars.ell, opts) \o <<" ">>
        ELSE connector(opts.chars.tee, opts) \o <<" ">>)

\* C10: the prefix of the line of a non-root node is, for each non-root proper
\* ancestor from the outermost, pipe + indent if the ancestor is not the last
\* child of its parent and space + indent if it is, then ell + space if the
\* node is the last child entry of its container and tee + space otherwise.
C10_Prefix ==
    pc = "done" =>
        \A i \in 1..Len(calls) :
            (calls[i].line # 0 /\ calls[i].path # <<>>) =>
                lines[calls[i].line].prefix = ExpectedPrefix(calls[i].path)

\* a truncation line three levels down, below an ancestor that is not a last child and
\* one that is
C10_Witness ==
    /\ pc = "done"
    /\ \E i \in 1..Len(calls) :
        /\ calls[i].line # 0
        /\ Len(calls[i].path) = 3
        /\ ~IsLastChild(SubSeq(calls[i].path, 1, 1))
        /\ IsLastChild(SubSeq(calls[i].path, 1, 2))
        /\ Deref(calls[i].value).t = "string"

----------------------------------------------------------------------------
(* C11 *)

\* the handler of the category a value belongs to, read off the value's kind
OwnHandler(value) ==
    LET v == Deref(value) IN
    CASE v.t \in {"null", "undefined", "boolean", "number", "bigint", "symbol"} ->
            "handlePrimitive"
      [] v.t = "string" -> "handleString"
      [] v.t = "function" ->
            IF v.src[1] = "class " THEN "handleClass" ELSE "handleFunction"
      [] v.t = "object" ->
            CASE v.cls = "Date" -> "handleDate"
              [] v.cls = "RegExp" -> "handleRegExp"
              [] v.cls = "Array" -> "handleArray"
              [] v.cls = "Set" -> "handleSet"
              [] v.cls = "Map" -> "handleMap"
              [] v.cls \in {"Object", "null"} -> "handleObject"
              [] v.cls = "Other" -> "handleInstance"

\* the node renderValue returned is the one the handler of the value's own
\* category builds, that handler is the first of the chain to match, and the
\* node is not the fallback
OwnHandlerRendered(c) ==
    /\ c.result # Unknown
    /\ FirstMatch(c.value, opts) # 0
    /\ handlers[FirstMatch(c.value, opts)] = OwnHandler(c.value)
    /\ c.result = CallHandler(OwnHandler(c.value), c.value, opts)
    /\ c.result.ok

\* the part of C11 that every call of renderValue that returns satisfies
FirstMatchWhenReturned ==
    \A i \in 1..Len(calls) :
        calls[i].branch = "value" => OwnHandlerRendered(calls[i])

\* C11: renderValue is total and first-match-wins over the handler order
\* primitive, string, date, regexp, array, set, map, function, class,
\* instance, plain object: every call of renderValue with a value of one of
\* these categories returns a node, the node is built by the handler of the
\* value's own category, and it is never the "Unknown" node.
C11_TotalFirstMatch ==
    \A i \in 1..Len(calls) :
        calls[i].branch \in {"value", "threw"} =>
            /\ calls[i].branch = "value"
            /\ OwnHandlerRendered(calls[i])

----------------------------------------------------------------------------
(* C12 *)

\* maxDepth is a finite number D
FiniteDepth == pc # "new" /\ opts.maxDepth.t = "number" /\ opts.maxDepth.x = "fin"

\* the heap objects a value holds directly
RefsOf(v) == {v.vals[i].id : i \in {j \in 1..Len(v.vals) : v.vals[j].t = "ref"}}

\* the heap objects reached from the objects of S in at most n steps
RECURSIVE ReachedFrom(_, _)
ReachedFrom(S, n) ==
    IF n = 0 THEN S
    ELSE ReachedFrom(S \cup UNION {RefsOf(heap[id]) : id \in S}, n - 1)

\* the input graph holds an object that contains itself
CyclicInput ==
    \E id \in 1..Len(heap) : id \in ReachedFrom(RefsOf(heap[id]), Len(heap))

\* whether q is a position strictly below p
StrictlyBelow(q, p) == Len(q) > Len(p) /\ SubSeq(q, 1, Len(p)) = p

\* with a finite maxDepth D no call of walk, made or pending, is deeper than
\* D + 1, and a call at depth D + 1 returns at once: no renderValue, no line,
\* no call for anything below it
RecursionBounded ==
    FiniteDepth =>
        LET D == opts.maxDepth.v IN
        /\ \A i \in 1..Len(stack) : stack[i].depth <= D + 1
        /\ \A i \in 1..Len(calls) :
            /\ calls[i].depth <= D + 1
            /\ calls[i].depth = D + 1 =>
                /\ calls[i].branch = "beyond"
                /\ calls[i].result = NoMatch
                /\ calls[i].line = 0
                /\ \A j \in 1..Len(calls) : ~StrictlyBelow(calls[j].path, calls[i].path)
                /\ \A j \in 1..Len(stack) : ~StrictlyBelow(stack[j].path, calls[i].path)
            /\ calls[i].branch = "beyond" => calls[i].depth = D + 1

\* the recursion has gone past every depth explored
RecursesOn == pc = "walking" /\ stack # <<>> /\ Head(stack).depth > MaxWalkDepth

\* render has returned or thrown
Returned == pc \in {"done", "threw"}

\* C12: with a finite maxDepth D render terminates on every finite input
\* graph, self-referential ones included: walk is never called deeper than
\* D + 1 and the call at depth D + 1 returns at once, without renderValue and
\* without visiting children; render recurses without end only when maxDepth
\* is not finite and the input contains itself.
C12_DepthBoundsRecursion ==
    /\ []RecursionBounded
    /\ [](RecursesOn => (~FiniteDepth /\ CyclicInput))
    /\ ((pc = "ready" /\ (FiniteDepth \/ ~CyclicInput)) ~> Returned)

\* render of an object that contains itself has returned under a finite
\* maxDepth D, after a call at depth D + 1 for that same object
C12_Witness ==
    /\ pc = "done"
    /\ FiniteDepth
    /\ CyclicInput
    /\ \E i \in 1..Len(calls) :
        /\ calls[i].depth = opts.maxDepth.v + 1
        /\ calls[i].branch = "beyond"
        /\ calls[i].value = root

\* render of an object that contains itself under the default maxDepth is
\* still recursing at the deepest call explored
C12_UnboundedCyclicRecursesOn == RecursesOn /\ CyclicInput /\ opts.maxDepth = Infinity

====
